---------------------------- MODULE Spec2Model ----------------------------
(***************************************************************************)
(* A model of tree2scaffold's parser (pkg/parser/parser.go): Parse and its *)
(* stages parseSimpleFormat, parseTreeFormat, postProcessDirectories and   *)
(* fixNestedPaths.                                                         *)
(*                                                                         *)
(* Strings.  A Go string is modelled as a sequence of symbols.  A symbol   *)
(* is either one character the code looks at on its own                    *)
(*     " "  "#"  "/"  "."  and the tree glyphs, written in ASCII here:     *)
(*     "|" for U+2502 (vertical), "+" for U+251C (tee),                    *)
(*     "L" for U+2514 (corner),   "-" for U+2500 (horizontal)              *)
(* or a run of name characters that the code never splits ("cmd", "go",    *)
(* "ui", ...; "_test" is always a symbol of its own because the code       *)
(* trims the suffix "_test.go").  Every string operation of the Go         *)
(* library the parser calls is defined below on such sequences, from the   *)
(* library's documented behaviour.                                         *)
(***************************************************************************)
EXTENDS Integers, Sequences, FiniteSets, TLC

---------------------------------------------------------------------------
(* package strings *)

EmptyStr == << >>

RECURSIVE Cat(_)
\* strings.Join(ss, ""): the concatenation of a sequence of strings
Cat(ss) == IF ss = << >> THEN << >> ELSE Head(ss) \o Cat(Tail(ss))

HasPrefix(s, p) == Len(p) <= Len(s) /\ SubSeq(s, 1, Len(p)) = p

HasSuffix(s, p) == Len(p) <= Len(s) /\ SubSeq(s, Len(s) - Len(p) + 1, Len(s)) = p

TrimPrefix(s, p) == IF HasPrefix(s, p) THEN SubSeq(s, Len(p) + 1, Len(s)) ELSE s

TrimSuffix(s, p) == IF HasSuffix(s, p) THEN SubSeq(s, 1, Len(s) - Len(p)) ELSE s

\* strings.Contains / strings.ContainsAny for one-symbol needles
ContainsSym(s, c) == \E i \in 1..Len(s) : s[i] = c

ContainsAny(s, cs) == \E i \in 1..Len(s) : s[i] \in cs

\* strings.Count for a one-symbol needle
Count(s, c) == Cardinality({i \in 1..Len(s) : s[i] = c})

\* unicode.IsSpace over the symbols of the model
IsSpace(c) == c \in {" ", "\t"}

RECURSIVE TrimLeftSpace(_)
TrimLeftSpace(s) ==
    IF s # << >> /\ IsSpace(Head(s)) THEN TrimLeftSpace(Tail(s)) ELSE s

RECURSIVE TrimRightSpace(_)
TrimRightSpace(s) ==
    IF s # << >> /\ IsSpace(s[Len(s)])
    THEN TrimRightSpace(SubSeq(s, 1, Len(s) - 1)) ELSE s

TrimSpace(s) == TrimRightSpace(TrimLeftSpace(s))

\* index of the first / last occurrence of symbol c in s, 0 when absent
IndexSym(s, c) ==
    IF ContainsSym(s, c)
    THEN CHOOSE i \in 1..Len(s) : s[i] = c /\ \A j \in 1..(i - 1) : s[j] # c
    ELSE 0

LastIndexSym(s, c) ==
    IF ContainsSym(s, c)
    THEN CHOOSE i \in 1..Len(s) : s[i] = c /\ \A j \in (i + 1)..Len(s) : s[j] # c
    ELSE 0

\* strings.SplitN(s, " ", 2)
SplitN2(s) ==
    LET i == IndexSym(s, " ")
    IN  IF i = 0 THEN <<s>>
        ELSE <<SubSeq(s, 1, i - 1), SubSeq(s, i + 1, Len(s))>>

RECURSIVE Split(_, _)
\* strings.Split(s, sep) for a one-symbol separator
Split(s, sep) ==
    LET i == IndexSym(s, sep)
    IN  IF i = 0 THEN <<s>>
        ELSE <<SubSeq(s, 1, i - 1)>> \o Split(SubSeq(s, i + 1, Len(s)), sep)

---------------------------------------------------------------------------
(* package path/filepath (Unix) *)

Slash == <<"/">>
Dot == <<".">>
DotDot == <<".", ".">>

RECURSIVE JoinSlash(_)
\* strings.Join(segs, "/")
JoinSlash(segs) ==
    IF segs = << >> THEN << >>
    ELSE IF Len(segs) = 1 THEN segs[1]
    ELSE segs[1] \o Slash \o JoinSlash(Tail(segs))

RECURSIVE CleanSegs(_, _, _)
\* filepath.Clean's element loop: drop empty and "." elements, let ".."
\* remove the element before it (or stay, when the path is not rooted and
\* nothing is left to remove).
CleanSegs(segs, acc, rooted) ==
    IF segs = << >> THEN acc
    ELSE LET e == Head(segs)
             canPop == acc # << >> /\ acc[Len(acc)] # DotDot
         IN  IF e = << >> \/ e = Dot THEN CleanSegs(Tail(segs), acc, rooted)
             ELSE IF e = DotDot
                  THEN IF canPop
                       THEN CleanSegs(Tail(segs), SubSeq(acc, 1, Len(acc) - 1), rooted)
                       ELSE IF rooted THEN CleanSegs(Tail(segs), acc, rooted)
                       ELSE CleanSegs(Tail(segs), Append(acc, e), rooted)
                  ELSE CleanSegs(Tail(segs), Append(acc, e), rooted)

Clean(path) ==
    IF path = << >> THEN Dot
    ELSE LET rooted == Head(path) = "/"
             body == JoinSlash(CleanSegs(Split(path, "/"), << >>, rooted))
         IN  IF rooted THEN Slash \o body
             ELSE IF body = << >> THEN Dot ELSE body

\* filepath.Join: empty elements are ignored, the result is cleaned; no
\* element at all gives the empty string
Join(elems) ==
    LET ne == SelectSeq(elems, LAMBDA e : e # << >>)
    IN  IF ne = << >> THEN << >> ELSE Clean(JoinSlash(ne))

\* filepath.Dir: everything up to the last separator, cleaned
Dir(path) == Clean(SubSeq(path, 1, LastIndexSym(path, "/")))

RECURSIVE TrimRightSlashes(_)
TrimRightSlashes(s) ==
    IF s # << >> /\ s[Len(s)] = "/"
    THEN TrimRightSlashes(SubSeq(s, 1, Len(s) - 1)) ELSE s

\* filepath.Base
Base(path) ==
    IF path = << >> THEN Dot
    ELSE LET p == TrimRightSlashes(path)
             q == SubSeq(p, LastIndexSym(p, "/") + 1, Len(p))
         IN  IF q = << >> THEN Slash ELSE q

\* filepath.Ext: from the last "." of the last element, "" without one
Ext(path) ==
    LET d == LastIndexSym(path, ".")
    IN  IF d > LastIndexSym(path, "/") THEN SubSeq(path, d, Len(path)) ELSE << >>

---------------------------------------------------------------------------
(* Names the code compares against, spelled as symbol sequences *)

sCmd == <<"cmd">>
sInternal == <<"internal">>
sPkg == <<"pkg">>
sApi == <<"api">>
sTest == <<"test">>
sTestdata == <<"testdata">>
sConfig == <<"config">>
sWorkflows == <<"workflows">>
sServer == <<"server">>
sProblems == <<"problems">>
sLicense == <<"license">>
sSession == <<"session">>
sStats == <<"stats">>
sUi == <<"ui">>
sGithub == <<".", "github">>
sVscode == <<".", "vscode">>
sDotConfig == <<".", "config">>
sTestGo == <<"_test", ".", "go">>
sCodeGo == <<"code", ".", "go">>
sTestProblemJson == <<"test_problem", ".", "json">>

\* dirNames of parseTreeFormat
TreeDirNames ==
    {sGithub, sCmd, sInternal, sPkg, sApi, sTest, sTestdata, sConfig,
     sWorkflows, sServer, sProblems}

\* dirNames of postProcessDirectories
PostDirNames ==
    {sGithub, sCmd, sInternal, sPkg, sApi, sTest, sTestdata, sConfig,
     sWorkflows, sServer, sProblems, sLicense, sSession, sStats, sUi}

\* The tree-drawing characters of containsTreeChar, and the characters the
\* indentation scan of parseTreeFormat runs over
TreeChars == {"|", "+", "L", "-"}
IndentChars == {"|", " ", "+", "L", "-"}

---------------------------------------------------------------------------
(* Node.  src is not a field of the Go struct: it records the input line  *)
(* (its position in the text read) the entry was built from.              *)

Node(path, isDir, comment, src) ==
    [Path |-> path, IsDir |-> isDir, Comment |-> comment, src |-> src]

\* Path, IsDir and Comment of every entry: the Go value of a []Node
Fields(nodes) ==
    [i \in 1..Len(nodes) |->
        <<nodes[i].Path, nodes[i].IsDir, nodes[i].Comment>>]

---------------------------------------------------------------------------
(* simpleFileRe = ^([^\s#]+)\s*(?:#\s*(.+))?$ *)

NoMatch == <<"nil">>

RECURSIVE NameRun(_)
\* the longest prefix of symbols that are neither white space nor "#"
NameRun(s) ==
    IF s = << >> \/ IsSpace(Head(s)) \/ Head(s) = "#" THEN << >>
    ELSE <<Head(s)>> \o NameRun(Tail(s))

\* simpleFileRe.FindStringSubmatch(line): NoMatch, or <<m[1], m[2]>>.
\* Group 1 must take the whole name run (a shorter one leaves a name
\* character that nothing after it matches).  What follows is white space
\* to the end, or white space, "#" and a non-empty rest; of that rest the
\* greedy \s* takes the leading white space, giving one character back
\* when nothing else would be left for (.+).
simpleFileReMatch(line) ==
    LET m1 == NameRun(line)
        rest == TrimLeftSpace(SubSeq(line, Len(m1) + 1, Len(line)))
        r == Tail(rest)
    IN  IF m1 = << >> THEN NoMatch
        ELSE IF rest = << >> THEN <<m1, << >> >>
        ELSE IF Head(rest) # "#" \/ r = << >> THEN NoMatch
        ELSE IF TrimLeftSpace(r) # << >> THEN <<m1, TrimLeftSpace(r)>>
        ELSE <<m1, <<r[Len(r)]>> >>

---------------------------------------------------------------------------
(* parseSimpleFormat, one iteration of its loop *)

\* (mutant) the comment is kept as the expression matched it
simpleLineNodesRawComment(line, src) ==
    LET m == simpleFileReMatch(line)
    IN  IF m = NoMatch THEN << >>
        ELSE LET path == m[1]
                 comment == m[2]
                 isDir == HasSuffix(path, Slash)
                 cleanPath == TrimSuffix(path, Slash)
             IN  <<Node(cleanPath, isDir, comment, src)>>

\* The entries the loop body appends for one line: none or one
simpleLineNodes(line, src) ==
    LET m == simpleFileReMatch(line)
    IN  IF m = NoMatch THEN << >>
        ELSE LET path == m[1]
                 comment == TrimSpace(m[2])
                 isDir == HasSuffix(path, Slash)
                 cleanPath == TrimSuffix(path, Slash)
             IN  <<Node(cleanPath, isDir, comment, src)>>

---------------------------------------------------------------------------
(* parseTreeFormat *)

\* lines[0] starts with the tee glyph and two horizontal glyphs
isPartialTreeFormat(lines) ==
    Len(lines) > 0 /\ HasPrefix(lines[1], <<"+", "-", "-">>)

\* rootName as set from the first line of a tree that is not partial
rootNameOf(rootLine) ==
    LET rootMatch == simpleFileReMatch(rootLine)
    IN  IF rootMatch = NoMatch THEN << >>
        ELSE IF HasSuffix(rootMatch[1], Slash) THEN rootMatch[1]
        ELSE rootMatch[1] \o Slash

RECURSIVE IndentRun(_)
\* indentStr: the leading run of glyphs and spaces
IndentRun(s) ==
    IF s = << >> \/ Head(s) \notin IndentChars THEN << >>
    ELSE <<Head(s)>> \o IndentRun(Tail(s))

\* indentLevel: the vertical glyphs of indentStr, plus one for a branch
indentLevelOf(line) ==
    LET indentStr == IndentRun(line)
        pipes == Count(indentStr, "|")
        branches == IF ContainsSym(indentStr, "+") \/ ContainsSym(indentStr, "L")
                    THEN 1 ELSE 0
    IN  pipes + branches

\* parts[0] of the line after its indentStr
pathTokenOf(line) == SplitN2(TrimPrefix(line, IndentRun(line)))[1]

treeCommentOf(line) ==
    LET parts == SplitN2(TrimPrefix(line, IndentRun(line)))
    IN  IF Len(parts) > 1 /\ HasPrefix(TrimSpace(parts[2]), <<"#">>)
        THEN TrimPrefix(TrimSpace(parts[2]), <<"#", " ">>)
        ELSE << >>

\* The line the has-children check looks at: lines[indentLevel+1] of the
\* Go slice (0-based), which is element indentLevel+2 here
lookAheadIndex(indentLevel) == indentLevel + 2

\* "this node has children": the line looked at carries more glyphs than
\* this line's level
hasChildren(lines, indentLevel) ==
    IF indentLevel < Len(lines) - 1
    THEN LET nextLine == lines[lookAheadIndex(indentLevel)]
             nextIndent == Count(nextLine, "|") + Count(nextLine, "+")
                           + Count(nextLine, "L")
         IN  nextIndent > indentLevel
    ELSE FALSE

treeIsDir(lines, line) ==
    LET path == pathTokenOf(line)
        byMarker == HasSuffix(path, Slash)
        byChildren == byMarker \/ hasChildren(lines, indentLevelOf(line))
    IN  IF byChildren THEN TRUE
        ELSE ~ContainsSym(path, ".") /\ Base(path) \in TreeDirNames

\* (mutant) the array is extended by one slot at most
adjustParentsOneSlot(parents, indentLevel, cleanPath) ==
    LET ext == IF indentLevel >= Len(parents) THEN Append(parents, << >>)
               ELSE parents
        n == IF indentLevel + 1 <= Len(ext) THEN indentLevel + 1 ELSE Len(ext)
    IN  [d \in 1..n |-> IF d = indentLevel + 1 THEN cleanPath ELSE ext[d]]

\* (mutant) the array is extended but never cut: the slots deeper than
\* indentLevel stay
adjustParentsKeepDeeper(parents, indentLevel, cleanPath) ==
    LET n == IF Len(parents) > indentLevel + 1 THEN Len(parents)
             ELSE indentLevel + 1
    IN  [d \in 1..n |->
            IF d = indentLevel + 1 THEN cleanPath
            ELSE IF d <= Len(parents) THEN parents[d]
            ELSE << >>]

\* "Adjust parent array": extend with "" up to indentLevel, cut to
\* indentLevel+1 slots, store the name at indentLevel.  Slot d of the Go
\* slice is element d+1 here.
adjustParents(parents, indentLevel, cleanPath) ==
    [d \in 1..(indentLevel + 1) |->
        IF d = indentLevel + 1 THEN cleanPath
        ELSE IF d <= Len(parents) THEN parents[d]
        ELSE << >>]

\* (mutant) the root name is left in place
stripRootNever(fullPath, rootName) == fullPath

\* "Remove the root name if present"
stripRoot(fullPath, rootName) ==
    IF rootName # << >> /\ HasPrefix(fullPath, rootName)
    THEN TrimPrefix(fullPath, rootName)
    ELSE fullPath

\* fullPath of the line, from the adjusted parents
treeFullPath(newParents, isDir, rootName) ==
    LET joined == Join(newParents)
        marked == IF isDir THEN joined \o Slash ELSE joined
    IN  stripRoot(marked, rootName)

\* The entries one iteration of the loop appends: none or one
treeLineNodes(lines, line, parents, rootName, src) ==
    LET isDir == treeIsDir(lines, line)
        cleanPath == TrimSuffix(pathTokenOf(line), Slash)
        newParents == adjustParents(parents, indentLevelOf(line), cleanPath)
        fullPath == treeFullPath(newParents, isDir, rootName)
    IN  IF fullPath # << >>
        THEN <<Node(fullPath, isDir, treeCommentOf(line), src)>>
        ELSE << >>

treeLineParents(line, parents) ==
    adjustParents(parents, indentLevelOf(line),
                  TrimSuffix(pathTokenOf(line), Slash))

---------------------------------------------------------------------------
(* postProcessDirectories *)

\* nodes[i].IsDir = true, and a trailing slash unless there is one
markDir(n) ==
    [n EXCEPT !.IsDir = TRUE,
              !.Path = IF HasSuffix(@, Slash) THEN @ ELSE @ \o Slash]

\* First loop: common directory names
lexicalPass(nodes) ==
    [i \in 1..Len(nodes) |->
        LET baseName == Base(nodes[i].Path)
        IN  IF ~nodes[i].IsDir /\ ~ContainsSym(baseName, ".")
               /\ baseName \in PostDirNames
            THEN markDir(nodes[i]) ELSE nodes[i]]

\* (mutant) the second pass looks only at the entry that follows entry i
othersNextOnly(nodes, i) == {i + 1} \cap (1..Len(nodes))

\* The entries the inner loop of the second pass ranges over for entry i
othersOf(nodes, i) == 1..Len(nodes)

\* entry i "is a parent path of another node"
isParentOfAnother(nodes, i) ==
    \E j \in othersOf(nodes, i) :
        /\ nodes[j].Path # nodes[i].Path
        /\ Dir(nodes[j].Path) # Dot
        /\ Dir(nodes[j].Path) = nodes[i].Path

RECURSIVE structuralFrom(_, _)
\* Second loop from entry i on; it reads the list as changed so far
structuralFrom(nodes, i) ==
    IF i > Len(nodes) THEN nodes
    ELSE IF ~nodes[i].IsDir /\ isParentOfAnother(nodes, i)
         THEN structuralFrom([nodes EXCEPT ![i] = markDir(nodes[i])], i + 1)
         ELSE structuralFrom(nodes, i + 1)

structuralPass(nodes) == structuralFrom(nodes, 1)

\* (mutant) the classified list is returned with directories first
postProcessDirectoriesDirsFirst(nodes) ==
    LET out == structuralPass(lexicalPass(nodes))
    IN  SelectSeq(out, LAMBDA n : n.IsDir) \o SelectSeq(out, LAMBDA n : ~n.IsDir)

postProcessDirectories(nodes) == structuralPass(lexicalPass(nodes))

---------------------------------------------------------------------------
(* fixNestedPaths *)

\* "for _, d := range nodes { if d.IsDir && TrimSuffix(d.Path, "/") == p"
dirEntryExists(nodes, p) ==
    \E j \in 1..Len(nodes) : nodes[j].IsDir /\ TrimSuffix(nodes[j].Path, Slash) = p

\* hiddenDirConventions: <<hidden directory, file name, subdirectory>>
hiddenDirConventions ==
    { <<sGithub, <<"build", ".", "yml">>, sWorkflows>>,
      <<sGithub, <<"ci", ".", "yml">>, sWorkflows>>,
      <<sGithub, <<"release", ".", "yml">>, sWorkflows>>,
      <<sGithub, <<"settings", ".", "yml">>, <<"settings">> >>,
      <<sVscode, <<"tasks", ".", "json">>, <<"tasks">> >>,
      <<sVscode, <<"settings", ".", "json">>, <<"settings">> >>,
      <<sVscode, <<"launch", ".", "json">>, <<"launch">> >>,
      <<sDotConfig, <<"app", ".", "config">>, <<"app">> >>,
      <<sDotConfig, <<"user", ".", "settings">>, <<"user">> >> }

\* Each rule gives the paths it assigns to nodes[i].Path: none or one.

\* (mutant) the rule goes by the base name of the path
ruleTestProblemByBase(nodes, path) ==
    IF Base(path) = sTestProblemJson
       /\ ( dirEntryExists(nodes, sTestdata \o Slash \o sProblems)
            \/ dirEntryExists(nodes, sProblems) )
    THEN << sTestdata \o Slash \o sProblems \o Slash \o path >>
    ELSE << >>

\* test_problem.json belongs in testdata/problems/
ruleTestProblem(nodes, path) ==
    IF path = sTestProblemJson
       /\ ( dirEntryExists(nodes, sTestdata \o Slash \o sProblems)
            \/ dirEntryExists(nodes, sProblems) )
    THEN << sTestdata \o Slash \o sProblems \o Slash \o path >>
    ELSE << >>

\* (mutant) the table has the .github conventions only
ruleHiddenDirGithubOnly(nodes, path) ==
    LET parentPath == Dir(path)
        parentParts == Split(parentPath, "/")
        conv == {c \in hiddenDirConventions :
                    c[1] = sGithub /\ c[1] = parentPath /\ c[2] = Base(path)}
    IN  IF HasPrefix(parentPath, Dot) /\ Len(parentParts) = 1
           /\ HasPrefix(parentParts[1], Dot) /\ conv # {}
        THEN LET subDirPath == parentPath \o Slash \o (CHOOSE c \in conv : TRUE)[3]
             IN  IF dirEntryExists(nodes, subDirPath)
                 THEN << subDirPath \o Slash \o Base(path) >>
                 ELSE << >>
        ELSE << >>

\* a file directly under a hidden directory, with a conventional
\* subdirectory that is in the list
ruleHiddenDir(nodes, path) ==
    LET parentPath == Dir(path)
        parentParts == Split(parentPath, "/")
        conv == {c \in hiddenDirConventions :
                    c[1] = parentPath /\ c[2] = Base(path)}
    IN  IF HasPrefix(parentPath, Dot) /\ Len(parentParts) = 1
           /\ HasPrefix(parentParts[1], Dot) /\ conv # {}
        THEN LET subDirPath == parentPath \o Slash \o (CHOOSE c \in conv : TRUE)[3]
             IN  IF dirEntryExists(nodes, subDirPath)
                 THEN << subDirPath \o Slash \o Base(path) >>
                 ELSE << >>
        ELSE << >>

\* path is internal/<fileName>
directlyUnderInternal(path) ==
    HasPrefix(path, sInternal \o Slash) /\ Len(Split(path, "/")) = 2

\* internal/ui.go belongs in internal/ui/
ruleSameStem(nodes, path) ==
    IF directlyUnderInternal(path)
    THEN LET fileName == Split(path, "/")[2]
             fileBaseName == TrimSuffix(fileName, Ext(fileName))
         IN  IF dirEntryExists(nodes, sInternal \o Slash \o fileBaseName)
             THEN << sInternal \o Slash \o fileBaseName \o Slash \o fileName >>
             ELSE << >>
    ELSE << >>

\* internal/<module>_test.go belongs in internal/<module>/
ruleTestFile(nodes, path) ==
    IF directlyUnderInternal(path)
    THEN LET fileName == Split(path, "/")[2]
             moduleName == TrimSuffix(fileName, sTestGo)
         IN  IF HasSuffix(fileName, sTestGo)
                /\ dirEntryExists(nodes, sInternal \o Slash \o moduleName)
             THEN << sInternal \o Slash \o moduleName \o Slash \o fileName >>
             ELSE << >>
    ELSE << >>

\* internal/code.go belongs in internal/ui/
ruleCodeGo(nodes, path) ==
    IF directlyUnderInternal(path)
    THEN LET fileName == Split(path, "/")[2]
         IN  IF fileName = sCodeGo /\ dirEntryExists(nodes, sInternal \o Slash \o sUi)
             THEN << sInternal \o Slash \o sUi \o Slash \o fileName >>
             ELSE << >>
    ELSE << >>

\* (mutant) the rules are applied to directory entries too
fixAssignmentsAnyEntry(nodes, i) ==
    LET path == nodes[i].Path
    IN  ruleTestProblem(nodes, path) \o ruleHiddenDir(nodes, path)
        \o ruleSameStem(nodes, path) \o ruleTestFile(nodes, path)
        \o ruleCodeGo(nodes, path)

\* The assignments to nodes[i].Path that one iteration of the outer loop
\* makes, in the order of the code.  Every rule reads path, the entry's
\* path when the iteration began, not what an earlier rule wrote.
fixAssignments(nodes, i) ==
    IF nodes[i].IsDir THEN << >>
    ELSE LET path == nodes[i].Path
         IN  ruleTestProblem(nodes, path) \o ruleHiddenDir(nodes, path)
             \o ruleSameStem(nodes, path) \o ruleTestFile(nodes, path)
             \o ruleCodeGo(nodes, path)

RECURSIVE fixFrom(_, _)
\* The outer loop from entry i on, on the list as changed so far
fixFrom(nodes, i) ==
    IF i > Len(nodes) THEN nodes
    ELSE LET a == fixAssignments(nodes, i)
         IN  IF a = << >> THEN fixFrom(nodes, i + 1)
             ELSE fixFrom([nodes EXCEPT ![i].Path = a[Len(a)]], i + 1)

fixNestedPaths(nodes) == fixFrom(nodes, 1)

---------------------------------------------------------------------------
(* Parse as a state machine *)

VARIABLES
    pc,             \* where Parse is
    input,          \* the text read: its lines, as scanner.Text() gives them
    lines,          \* the non-blank lines; in parseTreeFormat, its lines
    lineNo,         \* lineNo[k]: the position in input of lines[k]
    isSimpleFormat,
    rootName,
    parents,
    idx,            \* the line the format's loop is at
    nodes,          \* the entries built so far, then the list in place
    built,          \* the list parseSimpleFormat / parseTreeFormat returned
    classified      \* the list postProcessDirectories returned

\* The scaffolder's state (package scaffold and the command)
VARIABLES
    fs,             \* the file system under root: path |-> what is there
    fs0,            \* the file system when the run began
    opts,           \* who calls, and the command's flags
    todo,           \* Apply: the keys of its paths map not yet visited
    stack,          \* Apply: the directory entries passed so far
    calls,          \* the calls made to Validate and Apply, in order
    result          \* what Validate and Apply returned, in order

scaffoldVars == <<fs, fs0, opts, todo, stack, calls, result>>

vars == <<pc, input, lines, lineNo, isSimpleFormat, rootName, parents, idx,
          nodes, built, classified, scaffoldVars>>

\* The parser alone: no scaffolder at work
InitNoScaffold ==
    /\ fs = << >>
    /\ fs0 = << >>
    /\ opts = << >>
    /\ todo = {}
    /\ stack = << >>
    /\ calls = << >>
    /\ result = << >>

containsTreeChar(line) == ContainsAny(line, TreeChars)

InitParse ==
    /\ pc = "scan"
    /\ input = << >>
    /\ lines = << >>
    /\ lineNo = << >>
    /\ isSimpleFormat = TRUE
    /\ rootName = << >>
    /\ parents = << >>
    /\ idx = 0
    /\ nodes = << >>
    /\ built = << >>
    /\ classified = << >>
    /\ InitNoScaffold

\* Parse: simple format unless some line contains a tree character
Detect ==
    /\ pc = "detect"
    /\ isSimpleFormat' = (\A k \in 1..Len(lines) : ~containsTreeChar(lines[k]))
    /\ pc' = IF isSimpleFormat' THEN "simple" ELSE "tree_root"
    /\ idx' = 1
    /\ UNCHANGED <<scaffoldVars, input, lines, lineNo, rootName, parents, nodes, built,
                   classified>>

\* parseSimpleFormat: one iteration of its loop; after the last line the
\* list is returned to Parse
SimpleLine ==
    /\ pc = "simple"
    /\ nodes' = nodes \o simpleLineNodes(lines[idx], lineNo[idx])
    /\ idx' = idx + 1
    /\ pc' = IF idx = Len(lines) THEN "classify" ELSE "simple"
    /\ built' = IF idx = Len(lines) THEN nodes' ELSE built
    /\ UNCHANGED <<scaffoldVars, input, lines, lineNo, isSimpleFormat, rootName, parents,
                   classified>>

\* parseTreeFormat up to its loop: the first line is the root, and is
\* skipped, unless the tree is partial
TreeRoot ==
    /\ pc = "tree_root"
    /\ rootName' = IF isPartialTreeFormat(lines) THEN << >>
                   ELSE rootNameOf(lines[1])
    /\ lines' = IF isPartialTreeFormat(lines) THEN lines ELSE Tail(lines)
    /\ lineNo' = IF isPartialTreeFormat(lines) THEN lineNo ELSE Tail(lineNo)
    /\ parents' = << >>
    /\ idx' = 1
    /\ pc' = IF Len(lines') = 0 THEN "classify" ELSE "tree"
    /\ UNCHANGED <<scaffoldVars, input, isSimpleFormat, nodes, built, classified>>

\* parseTreeFormat: one iteration of its loop
TreeLine ==
    /\ pc = "tree"
    /\ nodes' = nodes \o treeLineNodes(lines, lines[idx], parents, rootName,
                                       lineNo[idx])
    /\ parents' = treeLineParents(lines[idx], parents)
    /\ idx' = idx + 1
    /\ pc' = IF idx = Len(lines) THEN "classify" ELSE "tree"
    /\ built' = IF idx = Len(lines) THEN nodes' ELSE built
    /\ UNCHANGED <<scaffoldVars, input, lines, lineNo, isSimpleFormat, rootName, classified>>

\* Parse: nodes = postProcessDirectories(nodes)
PostProcess ==
    /\ pc = "classify"
    /\ nodes' = postProcessDirectories(nodes)
    /\ classified' = nodes'
    /\ pc' = "fix"
    /\ UNCHANGED <<scaffoldVars, input, lines, lineNo, isSimpleFormat, rootName, parents,
                   idx, built>>

\* Parse: nodes = fixNestedPaths(nodes); return nodes, nil
FixNested ==
    /\ pc = "fix"
    /\ nodes' = fixNestedPaths(nodes)
    /\ pc' = "done"
    /\ UNCHANGED <<scaffoldVars, input, lines, lineNo, isSimpleFormat, rootName, parents,
                   idx, built, classified>>

---------------------------------------------------------------------------
(* Input texts *)

\* The 4-character units tree(1) draws
gTee == <<"+", "-", "-", " ">>
gCorner == <<"L", "-", "-", " ">>
gBar == <<"|", " ", " ", " ">>
gGap == <<" ", " ", " ", " ">>

\* The tree of the depth reconstruction example (TestParse, "traditional
\* tree format", without its comments)
ExampleTree ==
    << <<"project", "/">>,
       gTee \o <<"cmd", "/">>,
       gBar \o gCorner \o <<"app", "/">>,
       gBar \o gGap \o gCorner \o <<"main", ".", "go">>,
       gCorner \o <<"pkg", "/">>,
       gGap \o gCorner \o <<"util", "/">>,
       gGap \o gGap \o gCorner \o <<"helper", ".", "go">> >>

\* A tree whose root is named testdata, with the fixture file of
\* fixNestedPaths (TestFixNestedPaths, "test_problem.json is moved to
\* testdata/problems") beside a problems directory
FixtureTree ==
    << sTestdata \o Slash,
       gTee \o sProblems \o Slash,
       gCorner \o sTestProblemJson >>

\* Comment texts
sNote == <<"note">>
sDoesX == <<"does", " ", "X">>

\* A tree whose lines carry comments: "#" and the text with one blank
\* between them, with none, and with two
CommentTree ==
    << <<"a", "/">>,
       gTee \o <<"b", " ", "#", " ">> \o sNote,
       gTee \o <<"b", " ", "#">> \o sNote,
       gCorner \o <<"b", " ", "#", " ", " ">> \o sDoesX \o <<" ">> >>

ExampleTexts == {ExampleTree, FixtureTree, CommentTree}

ExampleLines == UNION { {e[k] : k \in 1..Len(e)} : e \in ExampleTexts }

IsPrefixOf(s, t) == Len(s) <= Len(t) /\ SubSeq(t, 1, Len(s)) = s

MaxLines == 3

\* Names and indentations of the lines of the texts Parse is run on
NameTokens == { <<"a">>, <<"a", "/">>, <<"b">>, <<"/">> }
Indents == { << >>, gTee, gCorner, gBar \o gCorner }

\* A line is an indentation and a name, or the vertical glyph alone, or
\* blank
Lines ==
    {ind \o name : ind \in Indents, name \in NameTokens}
        \cup { <<"|">>, <<" ">> }

\* The texts: up to MaxLines lines of Lines, and the example texts
IsText(text) ==
    \/ Len(text) <= MaxLines /\ \A k \in 1..Len(text) : text[k] \in Lines
    \/ text \in ExampleTexts

\* The text read so far can go on with this line
CanRead(text, line) ==
    \/ /\ Len(text) < MaxLines
       /\ line \in Lines
       /\ \A k \in 1..Len(text) : text[k] \in Lines
    \/ \E e \in ExampleTexts : IsPrefixOf(Append(text, line), e)

\* Parse: one iteration of the scanner loop reads one line of the text
\* and keeps it unless it is blank
ScanLine ==
    /\ pc = "scan"
    /\ \E line \in Lines \cup ExampleLines :
        /\ CanRead(input, line)
        /\ input' = Append(input, line)
        /\ lines' = IF TrimSpace(line) # << >> THEN Append(lines, line) ELSE lines
        /\ lineNo' = IF TrimSpace(line) # << >>
                     THEN Append(lineNo, Len(input) + 1) ELSE lineNo
    /\ UNCHANGED <<scaffoldVars, pc, isSimpleFormat, rootName, parents, idx, nodes, built,
                   classified>>

\* Parse: the scanner is at the end of the text; no line kept returns nil
ScanEnd ==
    /\ pc = "scan"
    /\ IsText(input)
    /\ pc' = IF Len(lines) = 0 THEN "done" ELSE "detect"
    /\ UNCHANGED <<scaffoldVars, input, lines, lineNo, isSimpleFormat, rootName, parents,
                   idx, nodes, built, classified>>

Next ==
    \/ ScanLine
    \/ ScanEnd
    \/ Detect
    \/ SimpleLine
    \/ TreeRoot
    \/ TreeLine
    \/ PostProcess
    \/ FixNested

Init == InitParse

Spec == Init /\ [][Next]_vars

---------------------------------------------------------------------------
(* Parse on lists: texts without tree characters, with comments *)

MaxListLines == 2

ListNames == { <<"a">>, <<"a", "/">>, sCmd, sProblems \o Slash, sTestProblemJson }

\* What may follow the name on a line, with the text it carries: nothing,
\* or white space (or none), "#", white space (or none) and the text,
\* white space after it or not
CommentForms ==
    { << << >>, << >> >>,
      << <<" ", "#", " ">> \o sNote, sNote >>,
      << <<"#">> \o sNote, sNote >>,
      << <<" ", " ", "#", " ", " ">> \o sDoesX \o <<" ">>, sDoesX >> }

\* A line is a name and one of the forms, or a name and a text with no
\* "#", or a name after white space, or blank
ListLines ==
    {name \o f[1] : name \in ListNames, f \in CommentForms}
        \cup { <<"a", " ">> \o sNote, <<" ", "a">>, <<" ">> }

\* Parse: one iteration of the scanner loop, on a list
ScanListLine ==
    /\ pc = "scan"
    /\ Len(input) < MaxListLines
    /\ \E line \in ListLines :
        /\ input' = Append(input, line)
        /\ lines' = IF TrimSpace(line) # << >> THEN Append(lines, line) ELSE lines
        /\ lineNo' = IF TrimSpace(line) # << >>
                     THEN Append(lineNo, Len(input) + 1) ELSE lineNo
    /\ UNCHANGED <<scaffoldVars, pc, isSimpleFormat, rootName, parents, idx, nodes, built,
                   classified>>

\* Parse: the scanner is at the end of the list; no line kept returns nil
ScanListEnd ==
    /\ pc = "scan"
    /\ pc' = IF Len(lines) = 0 THEN "done" ELSE "detect"
    /\ UNCHANGED <<scaffoldVars, input, lines, lineNo, isSimpleFormat, rootName, parents,
                   idx, nodes, built, classified>>

InitSimple == InitParse

NextSimple ==
    \/ ScanListLine
    \/ ScanListEnd
    \/ Detect
    \/ SimpleLine
    \/ PostProcess
    \/ FixNested

SpecSimple == InitSimple /\ [][NextSimple]_vars

---------------------------------------------------------------------------
(* postProcessDirectories called on a list of its own, as                 *)
(* TestPostProcessDirectories calls it, and called again on its result    *)

MaxNodes == 3

ListPaths ==
    { <<"a">>, <<"a", "/">>, <<"a", "/", "b">>, <<"a", "/", "b", "/">>,
      <<"a", "/", "b", "/", "c">>, sCmd, <<"a", "/", "cmd">>, sGithub }

ListComments == { <<"note">> }

InitList(at) ==
    /\ pc = at
    /\ nodes = << >>
    /\ built = << >>
    /\ input = << >>
    /\ lines = << >>
    /\ lineNo = << >>
    /\ isSimpleFormat = TRUE
    /\ rootName = << >>
    /\ parents = << >>
    /\ idx = 0
    /\ classified = << >>
    /\ InitNoScaffold

ClassifyOnce ==
    /\ pc = "list"
    /\ nodes # << >>
    /\ nodes' = postProcessDirectories(nodes)
    /\ classified' = nodes'
    /\ pc' = "classified_once"
    /\ UNCHANGED <<scaffoldVars, input, lines, lineNo, isSimpleFormat, rootName, parents,
                   idx, built>>

ClassifyAgain ==
    /\ pc = "classified_once"
    /\ nodes' = postProcessDirectories(nodes)
    /\ pc' = "classified_twice"
    /\ UNCHANGED <<scaffoldVars, input, lines, lineNo, isSimpleFormat, rootName, parents,
                   idx, built, classified>>

\* The caller writes its list, entry by entry; entry k has src k
AddEntry ==
    /\ pc = "list"
    /\ Len(nodes) < MaxNodes
    /\ \E path \in ListPaths, isDir \in BOOLEAN, comment \in ListComments :
        nodes' = Append(nodes, Node(path, isDir, comment, Len(nodes) + 1))
    /\ built' = nodes'
    /\ UNCHANGED <<scaffoldVars, pc, input, lines, lineNo, isSimpleFormat, rootName,
                   parents, idx, classified>>

InitClassify == InitList("list")

NextClassify == AddEntry \/ ClassifyOnce \/ ClassifyAgain

SpecClassify == InitClassify /\ [][NextClassify]_vars

---------------------------------------------------------------------------
(* fixNestedPaths on entry lists (TestFixNestedPaths) *)

MaxFixNodes == 3

sBuildYml == <<"build", ".", "yml">>
sCiYml == <<"ci", ".", "yml">>
sReleaseYml == <<"release", ".", "yml">>
sTasksJson == <<"tasks", ".", "json">>
sSettingsJson == <<"settings", ".", "json">>
sUiGo == <<"ui", ".", "go">>
sUiTestGo == <<"ui", "_test", ".", "go">>
sUtilGo == <<"util", ".", "go">>

\* path elements joined with "/"
Under(dir, name) == dir \o Slash \o name

\* The directory entries of the lists: written with the trailing "/", and
\* one as a list without glyphs gives it, without
FixDirs ==
    { Under(sGithub, sWorkflows) \o Slash,
      Under(sVscode, <<"tasks">>) \o Slash,
      Under(sVscode, <<"settings">>) \o Slash,
      Under(sInternal, sUi) \o Slash,
      Under(sInternal, <<"code">>),
      sProblems \o Slash,
      Under(sPkg, <<"util">>) \o Slash }

FixFiles ==
    { Under(sGithub, sBuildYml), Under(sGithub, sCiYml),
      Under(sGithub, sReleaseYml),
      Under(sVscode, sTasksJson), Under(sVscode, sSettingsJson),
      Under(sInternal, sUiGo), Under(sInternal, sUiTestGo),
      Under(sInternal, sCodeGo),
      sTestProblemJson,
      Under(sPkg, sUtilGo) }

\* The caller writes its list, entry by entry; entry k has src k
AddFixEntry ==
    /\ pc = "fixlist"
    /\ Len(nodes) < MaxFixNodes
    /\ \E path \in FixDirs \cup FixFiles, comment \in ListComments :
        nodes' = Append(nodes, Node(path, path \in FixDirs, comment,
                                    Len(nodes) + 1))
    /\ built' = nodes'
    /\ UNCHANGED <<scaffoldVars, pc, input, lines, lineNo, isSimpleFormat, rootName,
                   parents, idx, classified>>

\* got := fixNestedPaths(tt.input)
FixOnce ==
    /\ pc = "fixlist"
    /\ nodes # << >>
    /\ nodes' = fixNestedPaths(nodes)
    /\ classified' = nodes'
    /\ pc' = "fixed_once"
    /\ UNCHANGED <<scaffoldVars, input, lines, lineNo, isSimpleFormat, rootName, parents,
                   idx, built>>

\* fixNestedPaths on the list it returned
FixAgain ==
    /\ pc = "fixed_once"
    /\ nodes' = fixNestedPaths(nodes)
    /\ pc' = "fixed_twice"
    /\ UNCHANGED <<scaffoldVars, input, lines, lineNo, isSimpleFormat, rootName, parents,
                   idx, built, classified>>

InitFix == InitList("fixlist")

NextFix == AddFixEntry \/ FixOnce \/ FixAgain

SpecFix == InitFix /\ [][NextFix]_vars

---------------------------------------------------------------------------
(* package scaffold: DefaultScaffolder.Validate and Apply on a file system *)

MaxScaffoldNodes == 2

\* The paths under root, relative to it
FsPaths == { <<"a">>, <<"a", "/", "b">>, <<"b">>, <<"b", "/", "c">> }

\* What is at a path: nothing, a directory, a file with its content.  The
\* content of a file the run found is "old"; the content a generator
\* writes is told by the comment it was given.
Nothing == [kind |-> "none", data |-> << >>]
Directory == [kind |-> "dir", data |-> << >>]
OldFile == [kind |-> "file", data |-> <<"old">>]
Generated(comment) == [kind |-> "file", data |-> <<"new">> \o comment]

RECURSIVE AncestorDirs(_)
\* dir := filepath.Dir(path); for dir != "." { ...; dir = filepath.Dir(dir) }
AncestorDirs(path) ==
    LET dir == Dir(path)
    IN  IF dir = Dot THEN {} ELSE {dir} \cup AncestorDirs(dir)

\* The file systems a run may find: what exists lies in a directory
FileSystems ==
    { f \in [FsPaths -> {Nothing, Directory, OldFile}] :
        \A p \in FsPaths :
            f[p].kind # "none" => \A q \in AncestorDirs(p) : f[q].kind = "dir" }

\* filepath.Join(root, path), relative to root
UnderRoot(path) == Clean(path)

\* os.Stat(filepath.Join(root, path)): "dir" or "file" when err == nil,
\* "none" when it fails; root itself is a directory
Stat(fsys, path) ==
    IF UnderRoot(path) = Dot THEN "dir" ELSE fsys[UnderRoot(path)].kind

\* os.IsNotExist of the error of os.Stat: nothing at the path, and no file
\* on the way to it
IsNotExist(fsys, path) ==
    /\ Stat(fsys, path) = "none"
    /\ \A q \in AncestorDirs(UnderRoot(path)) : fsys[q].kind # "file"

\* os.MkdirAll(filepath.Join(root, path)): <<file system, error>>; it
\* fails, and makes nothing, when a file is at the path or on the way
MkdirAll(fsys, path) ==
    LET chain == ({UnderRoot(path)} \cup AncestorDirs(UnderRoot(path))) \ {Dot}
    IN  IF \E q \in chain : fsys[q].kind = "file" THEN <<fsys, "error">>
        ELSE <<[p \in FsPaths |-> IF p \in chain THEN Directory ELSE fsys[p]],
               "nil">>

\* os.Remove of a file
Remove(fsys, path) == [fsys EXCEPT ![UnderRoot(path)] = Nothing]

\* (mutant) the map has the directory entries only
pathsMapDirsOnly(list) ==
    {list[i].Path : i \in {j \in 1..Len(list) : list[j].IsDir}}

\* The keys of the paths map of Validate and of Apply: the paths of the
\* directory entries, and every parent directory of the file entries
pathsMap(list) ==
    {list[i].Path : i \in {j \in 1..Len(list) : list[j].IsDir}}
        \cup UNION {AncestorDirs(list[i].Path) :
                        i \in {j \in 1..Len(list) : ~list[j].IsDir}}

\* (mutant) Validate looks at the paths of the directory entries only
ValidateDirEntriesOnly(fsys, list) ==
    IF \E i \in 1..Len(list) : list[i].IsDir /\ Stat(fsys, list[i].Path) = "file"
    THEN "error" ELSE "nil"

\* DefaultScaffolder.Validate: an error when a path of the map is a file
Validate(fsys, list) ==
    IF \E dir \in pathsMap(list) : Stat(fsys, dir) = "file"
    THEN "error" ELSE "nil"

RECURSIVE lastComment(_)
\* for i := len(stack) - 1; i >= 0; i-- { if stack[i].Comment != "" ... }
lastComment(st) ==
    IF st = << >> THEN << >>
    ELSE IF st[Len(st)].Comment # << >> THEN st[Len(st)].Comment
    ELSE lastComment(SubSeq(st, 1, Len(st) - 1))

\* "Determine which comment to use"
commentFor(n, st) == IF n.Comment # << >> THEN n.Comment ELSE lastComment(st)

\* The entries of the lists given to the scaffolder: <<path, isDir,
\* comment>>
ScaffoldEntries ==
    { << <<"a", "/">>, TRUE, sNote >>,
      << <<"a", "/">>, TRUE, << >> >>,
      << <<"b", "/">>, TRUE, << >> >>,
      << <<"a", "/", "b", "/">>, TRUE, << >> >>,
      << <<"a">>, FALSE, << >> >>,
      << <<"a", "/", "b">>, FALSE, << >> >>,
      << <<"b", "/", "c">>, FALSE, << >> >>,
      << <<"b", "/", "c">>, FALSE, sDoesX >> }

\* Who calls: the command, with or without -force and with the dry run
\* declined at the prompt or not, or a test that calls Apply on a new
\* scaffolder
Callers ==
    { [caller |-> "cli", force |-> f, declined |-> d] : f, d \in BOOLEAN }
        \cup { [caller |-> "test", force |-> FALSE, declined |-> FALSE] }

InitScaffold ==
    /\ pc = "sc_list"
    /\ input = << >>
    /\ lines = << >>
    /\ lineNo = << >>
    /\ isSimpleFormat = TRUE
    /\ rootName = << >>
    /\ parents = << >>
    /\ idx = 0
    /\ nodes = << >>
    /\ built = << >>
    /\ classified = << >>
    /\ fs \in FileSystems
    /\ fs0 = fs
    /\ opts = << >>
    /\ todo = {}
    /\ stack = << >>
    /\ calls = << >>
    /\ result = << >>

\* The entry list comes to be, entry by entry; entry k has src k
AddScaffoldEntry ==
    /\ pc = "sc_list"
    /\ Len(nodes) < MaxScaffoldNodes
    /\ \E e \in ScaffoldEntries :
        nodes' = Append(nodes, Node(e[1], e[2], e[3], Len(nodes) + 1))
    /\ UNCHANGED <<pc, input, lines, lineNo, isSimpleFormat, rootName,
                   parents, idx, built, classified, scaffoldVars>>

\* main: the flags are parsed; without -force Validate comes next.  A
\* test goes to Apply at once.
Begin ==
    /\ pc = "sc_list"
    /\ nodes # << >>
    /\ \E o \in Callers :
        /\ opts' = o
        /\ pc' = IF o.caller = "test" THEN "sc_apply"
                 ELSE IF o.force THEN "sc_confirm" ELSE "sc_validate"
    /\ UNCHANGED <<input, lines, lineNo, isSimpleFormat, rootName, parents,
                   idx, nodes, built, classified, fs, fs0, todo, stack,
                   calls, result>>

\* (mutant) the command goes on after a validation error
CliValidateGoesOn ==
    /\ pc = "sc_validate"
    /\ calls' = Append(calls, "Validate")
    /\ result' = Append(result, Validate(fs, nodes))
    /\ pc' = "sc_confirm"
    /\ UNCHANGED <<input, lines, lineNo, isSimpleFormat, rootName, parents,
                   idx, nodes, built, classified, fs, fs0, opts, todo,
                   stack>>

\* main: if !*forceOverwrite { if err := scaffold.Validate(...); err != nil
\* { ...; os.Exit(1) } }
CliValidate ==
    /\ pc = "sc_validate"
    /\ calls' = Append(calls, "Validate")
    /\ result' = Append(result, Validate(fs, nodes))
    /\ pc' = IF Validate(fs, nodes) = "error" THEN "sc_exit1" ELSE "sc_confirm"
    /\ UNCHANGED <<input, lines, lineNo, isSimpleFormat, rootName, parents,
                   idx, nodes, built, classified, fs, fs0, opts, todo,
                   stack>>

\* main: if *dryRun { if !*alwaysYes && !askConfirm() { return } }
CliConfirm ==
    /\ pc = "sc_confirm"
    /\ pc' = IF opts.declined THEN "sc_exit0" ELSE "sc_apply"
    /\ UNCHANGED <<input, lines, lineNo, isSimpleFormat, rootName, parents,
                   idx, nodes, built, classified, scaffoldVars>>

\* Apply is called: it fills its paths map
ApplyBegin ==
    /\ pc = "sc_apply"
    /\ calls' = Append(calls, "Apply")
    /\ todo' = pathsMap(nodes)
    /\ stack' = << >>
    /\ idx' = 1
    /\ pc' = IF todo' = {} THEN "sc_files" ELSE "sc_dirs"
    /\ UNCHANGED <<input, lines, lineNo, isSimpleFormat, rootName, parents,
                   nodes, built, classified, fs, fs0, opts, result>>

\* Apply, "First create all directories": one iteration over the map, in
\* whatever order the map gives.  A file at the path is removed, then the
\* directory is made; Apply returns the error of os.MkdirAll.
ApplyDir ==
    /\ pc = "sc_dirs"
    /\ \E dir \in todo :
        LET cleared == IF Stat(fs, dir) = "file" THEN Remove(fs, dir) ELSE fs
            made == MkdirAll(cleared, dir)
        IN  /\ fs' = made[1]
            /\ todo' = todo \ {dir}
            /\ result' = IF made[2] = "error" THEN Append(result, "error")
                         ELSE result
            /\ pc' = IF made[2] = "error" THEN "sc_returned"
                     ELSE IF todo' = {} THEN "sc_files" ELSE "sc_dirs"
    /\ UNCHANGED <<input, lines, lineNo, isSimpleFormat, rootName, parents,
                   idx, nodes, built, classified, fs0, opts, stack, calls>>

\* Apply, "Now process file nodes": one iteration.  A directory entry goes
\* on the stack; a file entry whose path exists is skipped; else the file
\* is written with the content made from the comment.
ApplyFile ==
    /\ pc = "sc_files"
    /\ LET n == nodes[idx]
           made == MkdirAll(fs, Dir(n.Path))
           write == ~n.IsDir /\ Stat(fs, n.Path) = "none"
           failed == write /\ made[2] = "error"
       IN  /\ stack' = IF n.IsDir THEN Append(stack, n) ELSE stack
           /\ fs' = IF write /\ ~failed
                    THEN [made[1] EXCEPT ![UnderRoot(n.Path)] =
                                Generated(commentFor(n, stack))]
                    ELSE fs
           /\ result' = IF failed THEN Append(result, "error") ELSE result
           /\ pc' = IF failed THEN "sc_returned"
                    ELSE IF idx = Len(nodes) THEN "sc_verify" ELSE "sc_files"
    /\ idx' = idx + 1
    /\ UNCHANGED <<input, lines, lineNo, isSimpleFormat, rootName, parents,
                   nodes, built, classified, fs0, opts, todo, calls>>

\* Apply: return s.VerifyStructure(root, nodes)
ApplyVerify ==
    /\ pc = "sc_verify"
    /\ result' = Append(result,
            IF \E i \in 1..Len(nodes) : IsNotExist(fs, nodes[i].Path)
            THEN "error" ELSE "nil")
    /\ pc' = "sc_returned"
    /\ UNCHANGED <<input, lines, lineNo, isSimpleFormat, rootName, parents,
                   idx, nodes, built, classified, fs, fs0, opts, todo,
                   stack, calls>>

NextScaffold ==
    \/ AddScaffoldEntry
    \/ Begin
    \/ CliValidate
    \/ CliConfirm
    \/ ApplyBegin
    \/ ApplyDir
    \/ ApplyFile
    \/ ApplyVerify

SpecScaffold == InitScaffold /\ [][NextScaffold]_vars

---------------------------------------------------------------------------
(* Properties *)

\* The path of an entry without its directory marker
StripSlash(path) == TrimSuffix(path, Slash)

\* Parse has returned its list
Returned == pc = "done"

\* What the depth reconstruction example is to yield
ExampleEntries ==
    << << <<"cmd", "/">>, TRUE, << >> >>,
       << <<"cmd", "/", "app", "/">>, TRUE, << >> >>,
       << <<"cmd", "/", "app", "/", "main", ".", "go">>, FALSE, << >> >>,
       << <<"pkg", "/">>, TRUE, << >> >>,
       << <<"pkg", "/", "util", "/">>, TRUE, << >> >>,
       << <<"pkg", "/", "util", "/", "helper", ".", "go">>, FALSE, << >> >> >>

\* C1: Parse of the example tree (project/ with cmd/app/main.go and
\* pkg/util/helper.go, drawn in 4-character units) returns the six
\* entries cmd/, cmd/app/, cmd/app/main.go, pkg/, pkg/util/,
\* pkg/util/helper.go, each with the path of its ancestors, in that order.
C1_ExampleTreeYieldsAncestorPaths ==
    (Returned /\ input = ExampleTree) => Fields(nodes) = ExampleEntries

\* A's path, without its directory marker, is the parent directory of
\* B's: B's path without its marker is A's, a "/" and one more name
IsParentPath(a, b) ==
    /\ StripSlash(a) # << >>
    /\ Head(a) # "/"
    /\ ContainsSym(StripSlash(b), "/")
    /\ StripSlash(a) = Dir(StripSlash(b))

ParentImpliesDirectory(list) ==
    \A i, j \in 1..Len(list) :
        (i # j /\ IsParentPath(list[i].Path, list[j].Path)) => list[i].IsDir

\* C2: in the list postProcessDirectories returned, and in the list Parse
\* returns, every entry whose path is the parent directory of another
\* entry's path is a directory, wherever the two entries are in the list.
C2_ParentImpliesDirectory ==
    pc \in {"fix", "done"} => ParentImpliesDirectory(nodes)

\* C3: postProcessDirectories run on its own result changes nothing: the
\* second run returns every entry with the Path, IsDir and Comment the
\* first run gave it.
C3_ClassifyIdempotent ==
    pc = "classified_twice" => Fields(nodes) = Fields(classified)

\* C3 witness: the second run was made on a list in which the first run
\* had turned an entry into a directory because of its child (not for
\* its name).
C3_Witness ==
    /\ pc = "classified_twice"
    /\ \E i \in 1..Len(built) :
        /\ ~built[i].IsDir
        /\ classified[i].IsDir
        /\ Base(built[i].Path) \notin PostDirNames

\* The text is a complete tree: tree format, not partial, and its first
\* line gave a root name R (rootName is R with a "/")
CompleteTree ==
    ~isSimpleFormat /\ rootName # << >> /\ rootName # Slash

\* The name a tree line carries, without its directory marker
LineName(line) == StripSlash(pathTokenOf(line))

NoPathBeginsWithRoot ==
    \A i \in 1..Len(nodes) : ~HasPrefix(nodes[i].Path, rootName)

NoConnectorLineNamedRoot ==
    \A k \in 1..Len(lines) :
        indentLevelOf(lines[k]) >= 1 => LineName(lines[k]) \o Slash # rootName

\* Entry i is test_problem.json, moved by fixNestedPaths
IsRelocatedFixture(i) ==
    /\ classified[i].Path = sTestProblemJson
    /\ nodes[i].Path = sTestdata \o Slash \o sProblems \o Slash \o sTestProblemJson

C5_NoPathStartsWithSlash ==
    Returned => \A i \in 1..Len(nodes) : ~HasPrefix(nodes[i].Path, Slash)

\* C6: no entry Parse returns has an empty path; a line whose path is
\* empty once the trailing "/" and the root are removed gives no entry.
C6_NoEmptyPath ==
    Returned => \A i \in 1..Len(nodes) : nodes[i].Path # << >>

\* The input lines the entries of a list came from, in list order
SourceLines(ns) == [i \in 1..Len(ns) |-> ns[i].src]

\* C7: the entries Parse returns are in the order of the input lines they
\* came from (an earlier entry comes from an earlier line), and neither
\* postProcessDirectories nor fixNestedPaths changes the order the
\* format parser built.
C7_EntriesInInputOrder ==
    /\ Returned =>
        \A i, j \in 1..Len(nodes) : i < j => nodes[i].src < nodes[j].src
    /\ pc \in {"fix", "done"} => SourceLines(classified) = SourceLines(built)
    /\ pc = "done" => SourceLines(nodes) = SourceLines(classified)

\* C7 witness: Parse has returned two entries or more, one of which
\* postProcessDirectories turned into a directory, and a file comes
\* before a directory.
C7_Witness ==
    /\ Returned /\ Len(nodes) >= 2
    /\ \E i \in 1..Len(nodes) : ~built[i].IsDir /\ classified[i].IsDir
    /\ \E i, j \in 1..Len(nodes) : i < j /\ ~nodes[i].IsDir /\ nodes[j].IsDir

\* A kept line that is only structural glyphs and white space
GlyphOnly(line) == TrimSpace(line) # << >> /\ IndentRun(line) = line

\* C8: in tree format, a line that is only structural glyphs and white
\* space gives no entry: no entry Parse returns comes from such a line.
C8_GlyphOnlyLineYieldsNoEntry ==
    (Returned /\ ~isSimpleFormat) =>
        \A i \in 1..Len(nodes) : ~GlyphOnly(input[nodes[i].src])

\* The indentation of the line has a connector glyph: tee, corner or bar
HasConnector(line) == ContainsAny(IndentRun(line), {"+", "L", "|"})

\* C9: a tree text whose first line carries a connector glyph (tee, corner
\* or bar) and a name is a partial tree: the first line yields an entry
\* whose path is its name.
C9_ConnectorFirstLineYieldsEntry ==
    (Returned /\ ~isSimpleFormat /\ HasConnector(input[1])
        /\ LineName(input[1]) # << >>) =>
        \E i \in 1..Len(nodes) :
            nodes[i].src = 1 /\ StripSlash(nodes[i].Path) = LineName(input[1])

\* The entries that came from line k of the input
EntriesOf(k) == {i \in 1..Len(nodes) : nodes[i].src = k}

\* C10 as claimed: for a text with no tree glyphs, each line that is a
\* name followed by "#" and a text yields exactly one entry, whose Path is
\* the name and whose Comment is the text without surrounding white
\* space; a name alone yields an entry with an empty Comment.
C10_ListLineYieldsNameAndComment ==
    (Returned /\ isSimpleFormat) =>
        \A k \in 1..Len(input), name \in ListNames, f \in CommentForms :
            input[k] = name \o f[1] =>
                /\ Cardinality(EntriesOf(k)) = 1
                /\ \A i \in EntriesOf(k) :
                    nodes[i].Path = name /\ nodes[i].Comment = f[2]

\* C10 as amended: for a text with no tree glyphs, each line that is a
\* name not ending in "/", alone or followed by "#" and a text, yields
\* exactly one entry; its Comment is the text without surrounding white
\* space (empty for a name alone); its Path is the name, with "/" added
\* when postProcessDirectories makes the entry a directory, unless
\* fixNestedPaths moves the file, and then the Path still ends with the
\* base of the name.
C10_ListLineYieldsNameUnlessClassifiedOrMoved ==
    (Returned /\ isSimpleFormat) =>
        \A k \in 1..Len(input), name \in ListNames, f \in CommentForms :
            (input[k] = name \o f[1] /\ ~HasSuffix(name, Slash)) =>
                /\ Cardinality(EntriesOf(k)) = 1
                /\ \A i \in EntriesOf(k) :
                    /\ nodes[i].Comment = f[2]
                    /\ \/ classified[i].Path = name
                       \/ classified[i].Path = name \o Slash /\ classified[i].IsDir
                    /\ \/ nodes[i].Path = classified[i].Path
                       \/ ~nodes[i].IsDir /\ Base(nodes[i].Path) = Base(name)

\* C10 witness: a list of two lines, each a name, "#" and a text between
\* white space; both entries are returned with the text alone as
\* Comment, and the second with the name as Path.
C10_Witness ==
    /\ Returned /\ isSimpleFormat /\ Len(input) = 2 /\ Len(nodes) = 2
    /\ \A k \in 1..2 : \E name \in ListNames :
        /\ ~HasSuffix(name, Slash)
        /\ input[k] = name \o <<" ", " ", "#", " ", " ">> \o sDoesX \o <<" ">>
        /\ nodes[k].src = k
        /\ nodes[k].Comment = sDoesX
        /\ k = 2 => nodes[k].Path = name

\* The comment of a line as the text after its first "#", without
\* surrounding white space; empty when the line has no "#"
TextAfterMarker(line) ==
    IF ContainsSym(line, "#")
    THEN TrimSpace(SubSeq(line, IndexSym(line, "#") + 1, Len(line)))
    ELSE << >>

\* C11: the Comment of every entry Parse returns is the text after the
\* "#" of its line, without the "#" and without leading or trailing white
\* space, in tree format as in a list and whatever white space stands
\* between "#" and the text; it is empty when the line has no comment.
C11_CommentIsTrimmedTextAfterMarker ==
    Returned =>
        \A i \in 1..Len(nodes) :
            nodes[i].Comment = TextAfterMarker(input[nodes[i].src])

\* C12: in the list Parse returns, an entry is a directory exactly when
\* its Path ends in "/"; so a name written with a trailing "/", in a list
\* as in a tree, yields a directory whose Path carries the "/".
C12_DirectoryIffTrailingSlash ==
    Returned =>
        \A i \in 1..Len(nodes) : nodes[i].IsDir <=> HasSuffix(nodes[i].Path, Slash)

\* The first line of the text is a directory name written with a trailing
\* "/", and lines follow it
FirstLineIsDirectoryName ==
    /\ Len(lines) >= 2 /\ lineNo[1] = 1
    /\ \E name \in ListNames, f \in CommentForms :
        HasSuffix(name, Slash) /\ input[1] = name \o f[1]

\* C13: for a list without glyphs whose first line is a directory name
\* with a trailing "/" and whose other lines are entries, Parse returns no
\* entry for the first line.
C13_ListRootLineYieldsNoEntry ==
    (Returned /\ isSimpleFormat /\ FirstLineIsDirectoryName) => EntriesOf(1) = {}

\* The list has a directory entry whose path, without "/", is p
HasDirectory(list, p) ==
    \E j \in 1..Len(list) : list[j].IsDir /\ StripSlash(list[j].Path) = p

\* fixNestedPaths has returned for the list in built
Fixed == pc = "fixed_once"

\* The conventions the hidden directory rule is stated for: <<hidden
\* directory, file, subdirectory>>
StatedConventions ==
    { <<sGithub, sBuildYml, sWorkflows>>,
      <<sGithub, sCiYml, sWorkflows>>,
      <<sGithub, sReleaseYml, sWorkflows>>,
      <<sVscode, sTasksJson, <<"tasks">> >>,
      <<sVscode, sSettingsJson, <<"settings">> >> }

\* C14: a file directly under .github or .vscode whose name the table maps
\* to a subdirectory is moved into that subdirectory whenever the list has
\* a directory entry for it: the result has the file under the
\* subdirectory and no file entry at the old path.
C14_HiddenDirFileMovedToConventionalSubdir ==
    Fixed =>
        \A c \in StatedConventions :
            HasDirectory(built, Under(c[1], c[3])) =>
                /\ \A i \in 1..Len(built) :
                    (~built[i].IsDir /\ built[i].Path = Under(c[1], c[2])) =>
                        nodes[i].Path = Under(Under(c[1], c[3]), c[2])
                /\ \A i \in 1..Len(nodes) : nodes[i].Path # Under(c[1], c[2])

\* C14 witness: a list with .github/workflows/ and two workflow files
\* directly under .github; both are returned under .github/workflows/.
C14_Witness ==
    /\ Fixed /\ Len(built) = 3
    /\ HasDirectory(built, Under(sGithub, sWorkflows))
    /\ \E i, j \in 1..3 :
        /\ built[i].Path = Under(sGithub, sBuildYml)
        /\ nodes[i].Path = Under(Under(sGithub, sWorkflows), sBuildYml)
        /\ built[j].Path = Under(sGithub, sCiYml)
        /\ nodes[j].Path = Under(Under(sGithub, sWorkflows), sCiYml)

\* C15: fixNestedPaths never fabricates a directory: an entry whose path
\* it changed lies in a directory that has an entry in the list.
C15_MovedOnlyIntoListedDirectory ==
    Fixed =>
        \A i \in 1..Len(nodes) :
            nodes[i].Path # built[i].Path =>
                HasDirectory(nodes, Dir(nodes[i].Path))

\* C16: fixNestedPaths changes nothing but the Path of file entries: the
\* list keeps its length and order, every entry its IsDir and Comment, and
\* every directory entry its Path.
C16_OnlyFilePathsChange ==
    Fixed =>
        /\ Len(nodes) = Len(built)
        /\ \A i \in 1..Len(nodes) :
            /\ nodes[i].src = built[i].src
            /\ nodes[i].IsDir = built[i].IsDir
            /\ nodes[i].Comment = built[i].Comment
            /\ built[i].IsDir => nodes[i].Path = built[i].Path

\* C16 witness: a list of three entries, with a directory written without
\* "/" under internal, in which a file that is not the last entry was
\* moved.
C16_Witness ==
    /\ Fixed /\ Len(built) = 3
    /\ \E j \in 1..3 : built[j].IsDir /\ ~HasSuffix(built[j].Path, Slash)
    /\ \E i \in 1..2 : ~built[i].IsDir /\ nodes[i].Path # built[i].Path

\* C17: in one run of fixNestedPaths at most one rule assigns the path of
\* an entry.  (The rules read the entry's path as it was when its turn
\* came, and the directory entries do not change, so the assignments made
\* to entry i are those of fixAssignments on the list given.)
C17_AtMostOneRulePerEntry ==
    Fixed => \A i \in 1..Len(built) : Len(fixAssignments(built, i)) <= 1

\* The name of a file without its extension
Stem(fileName) == TrimSuffix(fileName, Ext(fileName))

\* C18: the same-stem rule applies under any directory D: a file D/name.ext
\* whose name without extension is the base name of a directory entry D/X
\* of the list is returned as D/X/name.ext.
C18_SameStemUnderAnyDirectory ==
    Fixed =>
        \A i \in 1..Len(built) :
            LET path == built[i].Path
                D == Dir(path)
                X == Stem(Base(path))
            IN  (~built[i].IsDir /\ D # Dot /\ HasDirectory(built, Under(D, X))) =>
                    nodes[i].Path = Under(Under(D, X), Base(path))

\* The conventional directory names the lexical pass is stated for
StatedDirNames ==
    { sCmd, sInternal, sPkg, sApi, sTest, sTestdata, sConfig, sWorkflows,
      sServer, sProblems, sLicense, sSession, sStats, sUi, sGithub }

\* C19: postProcessDirectories makes every entry whose base name is a
\* conventional directory name a directory with a path ending in "/", also
\* when the entry has no "/" and nothing in the list lies beneath it; so
\* for ".github".
C19_ConventionalNameIsDirectory ==
    pc = "classified_once" =>
        \A i \in 1..Len(built) :
            (~built[i].IsDir /\ Base(built[i].Path) \in StatedDirNames) =>
                classified[i].IsDir /\ HasSuffix(classified[i].Path, Slash)

\* C20: Parse indexes its slices in range, whatever the lines: the loops
\* are at a line of the text, the root line exists when it is read, the
\* look-ahead lines[indentLevel+1] is read only where the text has that
\* line, and the ancestor array has slots 0..indentLevel after it was
\* adjusted, also when the depth of the line is more than one beyond its
\* size.
C20_IndicesInRange ==
    /\ pc \in {"simple", "tree"} => idx \in 1..Len(lines)
    /\ pc = "tree_root" => Len(lines) >= 1
    /\ pc = "tree" =>
        LET indentLevel == indentLevelOf(lines[idx])
            cleanPath == TrimSuffix(pathTokenOf(lines[idx]), Slash)
        IN  /\ indentLevel < Len(lines) - 1 =>
                    lookAheadIndex(indentLevel) \in 1..Len(lines)
            /\ DOMAIN adjustParents(parents, indentLevel, cleanPath)
                    = 1..(indentLevel + 1)

\* C20 witness: a tree of a root line and one line at depth 2; the line
\* was processed with an empty ancestor array, which now has three slots,
\* and there was no line to look ahead at.
C20_Witness ==
    /\ pc = "classify" /\ ~isSimpleFormat
    /\ Len(input) = 2 /\ Len(lines) = 1
    /\ indentLevelOf(lines[1]) = 2
    /\ Len(parents) = 3

\* Apply has been called with force mode off
AppliedWithoutForce ==
    pc \in {"sc_dirs", "sc_files", "sc_verify", "sc_returned"} /\ ~opts.force

\* C21: with force mode off, Apply leaves every file that was under root
\* as it was, whatever the entry list: none is removed, none is written
\* again.
C21_ApplyKeepsExistingFiles ==
    AppliedWithoutForce =>
        \A p \in FsPaths : fs0[p].kind = "file" => fs[p] = fs0[p]

\* Path q is a directory above path p
IsAbove(q, p) == HasPrefix(p, q \o Slash)

\* The directories the entries require: the paths of the directory
\* entries, and the directories above the file entries
RequiredDirs ==
    { q \in FsPaths :
        \E i \in 1..Len(nodes) :
            \/ nodes[i].IsDir /\ StripSlash(nodes[i].Path) = q
            \/ ~nodes[i].IsDir /\ IsAbove(q, nodes[i].Path) }

\* Validate was called first and has returned
Validated == Len(calls) >= 1 /\ calls[1] = "Validate" /\ Len(result) >= 1

\* C22: Validate returns an error exactly when a directory the entries
\* require is there as a file, and nil otherwise; it leaves the file
\* system as it was.
C22_ValidateErrorIffRequiredDirIsFile ==
    Validated =>
        /\ result[1] = "error" <=> \E q \in RequiredDirs : fs0[q].kind = "file"
        /\ Len(calls) = 1 => fs = fs0

\* C22 witness: Validate returned an error for a list with file entries
\* only, one of them under a path where a file is.
C22_Witness ==
    /\ Validated /\ result[1] = "error" /\ pc = "sc_exit1"
    /\ \A i \in 1..Len(nodes) : ~nodes[i].IsDir
    /\ \E q \in RequiredDirs : fs0[q].kind = "file"

\* The comment of the nearest directory entry above the file entry i that
\* has a comment; empty when no directory entry above it has one
NearestAncestorComment(i) ==
    LET above == {j \in 1..Len(nodes) :
                    /\ nodes[j].IsDir /\ nodes[j].Comment # << >>
                    /\ IsAbove(StripSlash(nodes[j].Path), nodes[i].Path)}
    IN  IF above = {} THEN << >>
        ELSE nodes[CHOOSE j \in above :
                    \A k \in above : Len(nodes[k].Path) <= Len(nodes[j].Path)].Comment

\* C23: a file Apply writes for an entry without a comment is made with
\* the comment of the nearest directory entry above it that has one, never
\* with the comment of a directory that is not above it; an entry with a
\* comment of its own is written with its own.
C23_CommentFromNearestAncestor ==
    pc = "sc_returned" =>
        \A i \in 1..Len(nodes) :
            LET p == UnderRoot(nodes[i].Path)
                first == \A j \in 1..(i - 1) : UnderRoot(nodes[j].Path) # p
            IN  (~nodes[i].IsDir /\ first /\ fs0[p].kind = "none"
                    /\ fs[p].kind = "file") =>
                    fs[p] = Generated(IF nodes[i].Comment # << >>
                                      THEN nodes[i].Comment
                                      ELSE NearestAncestorComment(i))

\* C24: the has-children check of the tree parser marks an entry without
\* a trailing "/" a directory only when the line right after the entry's
\* own line is deeper than it; never when that line is as deep or
\* shallower, or when the entry's line is the last.
C24_HasChildrenLooksAtNextLine ==
    (pc = "tree" /\ ~HasSuffix(pathTokenOf(lines[idx]), Slash)
        /\ hasChildren(lines, indentLevelOf(lines[idx]))) =>
        /\ idx < Len(lines)
        /\ indentLevelOf(lines[idx + 1]) > indentLevelOf(lines[idx])

\* C25: fixNestedPaths on the list fixNestedPaths returned changes
\* nothing: no rule fires on an entry the first pass moved or left alone.
C25_FixIdempotent ==
    pc = "fixed_twice" => Fields(nodes) = Fields(classified)

\* C25 witness: the first pass moved a file and left another file alone,
\* and the second pass has run.
C25_Witness ==
    /\ pc = "fixed_twice"
    /\ \E i, j \in 1..Len(built) :
        /\ ~built[i].IsDir /\ classified[i].Path # built[i].Path
        /\ ~built[j].IsDir /\ classified[j].Path = built[j].Path

\* The name active at level j (0 for the top) when line k of the loop is
\* read: the name of the latest earlier line at level j, unless a line at
\* a shallower level came after it
ActiveName(k, j) ==
    LET earlier == {m \in 1..(k - 1) : indentLevelOf(lines[m]) <= j}
    IN  IF earlier = {} THEN << >>
        ELSE LET m == CHOOSE x \in earlier : \A y \in earlier : y <= x
             IN  IF indentLevelOf(lines[m]) = j
                 THEN TrimSuffix(pathTokenOf(lines[m]), Slash)
                 ELSE << >>

\* The names active at the levels above line k, and the name of line k
ActiveChain(k) ==
    [d \in 1..(indentLevelOf(lines[k]) + 1) |->
        IF d = indentLevelOf(lines[k]) + 1
        THEN TrimSuffix(pathTokenOf(lines[k]), Slash)
        ELSE ActiveName(k, d - 1)]

\* The tree parser has read all its lines
TreeBuilt == ~isSimpleFormat /\ pc \in {"classify", "fix", "done"}

\* C26: the path the tree parser builds for a line at depth d is made of
\* the names active when the line is read only: after a line at depth k
\* the ancestor array has the slots 0..k and no deeper one, so a later,
\* deeper line takes no name from a subtree that was closed; and a later
\* line changes no entry that was already built.
C26_PathFromActiveAncestorsOnly ==
    /\ [](TreeBuilt =>
            \A k \in 1..Len(lines) : \A i \in 1..Len(built) :
                built[i].src = lineNo[k] =>
                    built[i].Path
                        = treeFullPath(ActiveChain(k), built[i].IsDir, rootName))
    /\ []((pc = "tree" /\ idx > 1) =>
            Len(parents) = indentLevelOf(lines[idx - 1]) + 1)
    /\ [][pc = "tree" => IsPrefixOf(nodes, nodes')]_vars

\* C26 witness: a line at depth 1 or deeper, then a line at depth 0, then
\* a line at depth 2; the entry of the last line has the names of the
\* second line and of its own line, and none of the first.
C26_Witness ==
    /\ TreeBuilt
    /\ \E k \in 1..(Len(lines) - 2) :
        /\ indentLevelOf(lines[k]) >= 1 /\ LineName(lines[k]) # << >>
        /\ indentLevelOf(lines[k + 1]) = 0 /\ LineName(lines[k + 1]) # << >>
        /\ indentLevelOf(lines[k + 2]) = 2 /\ LineName(lines[k + 2]) # << >>
        /\ \E i \in 1..Len(built) :
            /\ built[i].src = lineNo[k + 2]
            /\ StripSlash(built[i].Path)
                = LineName(lines[k + 1]) \o Slash \o LineName(lines[k + 2])

\* The (path without its trailing "/", IsDir) pairs of a list
DirPairs(ns) == {<<StripSlash(ns[i].Path), ns[i].IsDir>> : i \in 1..Len(ns)}

\* The orders the entries of a list of n entries can be put in
Orders(n) ==
    {f \in [1..n -> 1..n] : \A i, j \in 1..n : f[i] = f[j] => i = j}

\* C28: postProcessDirectories gives the same (path, IsDir) pairs for a
\* list and for every reordering of it: whether a parent is marked a
\* directory does not depend on where it stands among its children and
\* grandchildren.
C28_ClassifyOrderIndependent ==
    pc = "classified_once" =>
        \A f \in Orders(Len(built)) :
            DirPairs(postProcessDirectories([i \in 1..Len(built) |-> built[f[i]]]))
                = DirPairs(classified)

\* C30: in a complete tree every line below the root that has a name
\* gives exactly one entry of the list Parse returns, and the path of the
\* entry ends with the name of the line, also when the line is named as
\* the root is.
C30_EveryNamedLineYieldsOneEntry ==
    (Returned /\ CompleteTree) =>
        \A k \in 1..Len(lines) :
            LineName(lines[k]) # << >> =>
                /\ Cardinality(EntriesOf(lineNo[k])) = 1
                /\ \A i \in EntriesOf(lineNo[k]) :
                    HasSuffix(StripSlash(nodes[i].Path), LineName(lines[k]))

\* The function has been called
Called(name) == \E n \in 1..Len(calls) : calls[n] = name

\* The command has read its flags, without or with -force
CliRun(force) ==
    /\ pc \notin {"sc_list"} /\ opts # << >>
    /\ opts.caller = "cli" /\ opts.force = force

\* C27: the command without -force calls Validate before Apply and calls
\* Apply only when Validate returned nil; when Validate reports a conflict
\* the command exits with status 1, Apply is never called and the file
\* system stays as it was.  With -force the command never calls Validate,
\* and calls Apply unless the dry-run question was answered with no.
C27_ValidateGuardsApply ==
    /\ CliRun(FALSE) =>
        /\ Called("Apply") =>
                Len(calls) = 2 /\ calls[1] = "Validate" /\ result[1] = "nil"
        /\ (Validated /\ result[1] = "error") =>
                pc = "sc_exit1" /\ calls = <<"Validate">> /\ fs = fs0
        /\ pc # "sc_validate" => Validated
    /\ CliRun(TRUE) =>
        /\ ~Called("Validate")
        /\ pc \notin {"sc_validate", "sc_exit1"}
        /\ pc = "sc_exit0" => opts.declined
        /\ pc = "sc_returned" => calls = <<"Apply">>

\* C27 witness: the command without -force has exited with status 1 on a
\* list with a directory entry where a file is.
C27_Witness ==
    /\ CliRun(FALSE) /\ pc = "sc_exit1"
    /\ \E i \in 1..Len(nodes) :
        nodes[i].IsDir /\ fs0[StripSlash(nodes[i].Path)].kind = "file"

\* C29: when Validate has returned nil and Apply is then called with
\* force mode off on the same file system, nothing that was under root is
\* removed or changed, and no path of Apply's directory phase holds a
\* file.
C29_ApplyAfterValidateRemovesNothing ==
    (CliRun(FALSE) /\ Validated /\ result[1] = "nil") =>
        /\ \A p \in FsPaths : fs0[p].kind # "none" => fs[p] = fs0[p]
        /\ pc = "sc_dirs" => \A dir \in todo : Stat(fs, dir) # "file"

\* C29 witness: Apply has returned after Validate returned nil, on a file
\* system that had a file, for a list with a file entry in a directory
\* that was not there.
C29_Witness ==
    /\ CliRun(FALSE) /\ Validated /\ result[1] = "nil" /\ pc = "sc_returned"
    /\ \E p \in FsPaths : fs0[p].kind = "file"
    /\ \E q \in RequiredDirs : fs0[q].kind = "none" /\ fs[q].kind = "dir"

=============================================================================
